---- MODULE Spec2Model ----
(***************************************************************************)
(* Model of src/app.py: the four scorers, the aggregator                    *)
(* (calculate_overall_score_and_reasons), the cached fetch                   *)
(* (fetch_stock_data_from_yfinance) and the /api/stock_data handler.         *)
(*                                                                           *)
(* Numbers are fixed point so that every threshold of the source is an       *)
(* integer: prices and closes in cents, P/E and beta in hundredths,          *)
(* dividend yield in 1/10000 (basis points), market cap in 1e9.  The         *)
(* analyst upside is the exact quotient of two prices and is kept as a       *)
(* rational.  Python values are tagged records: None, a number, a            *)
(* rational, a string.  Dicts are functions from key strings to values.      *)
(***************************************************************************)
EXTENDS Integers, Sequences, FiniteSets, TLC

VARIABLES
    provider,          \* what yfinance holds for the ticker: [info, history]
    STOCK_DATA_CACHE,  \* ticker -> [data, timestamp]
    now,               \* datetime.now(), in seconds
    served,            \* requests to /api/stock_data handled so far
    response,          \* the last response of /api/stock_data
    lastReport,        \* outcome of the last analyze call on the cached snapshot
    prevReport,        \* outcome of the analyze call before it on that snapshot
    args,              \* arguments of a direct call of one scorer
    result,            \* what that call returned
    lastCall,          \* the fetch made by the latest request to /api/stock_data
    calls,             \* the direct calls of fetch_stock_data_from_yfinance so far
    watchlistFile,     \* what WATCHLIST_FILE holds
    requests,          \* the requests to /api/watchlist, each with its position
    acked              \* tickers whose last 200 answer was that of an add

\* the state of the watchlist routes and of the direct calls of the fetch
watchVars == <<watchlistFile, requests, acked, calls>>

vars == <<provider, STOCK_DATA_CACHE, now, served, response, lastReport,
          prevReport, args, result, lastCall, calls, watchlistFile, requests,
          acked>>

-----------------------------------------------------------------------------
(* Python values *)

None == [t |-> "none"]
Num(v) == [t |-> "num", v |-> v]
Rat(n, d) == [t |-> "rat", n |-> n, d |-> d]
Str(s) == [t |-> "str", s |-> s]

\* isinstance(x, (int, float))
IsNumber(x) == x.t \in {"num", "rat"}

\* bool(x) of a value: None, 0 and "" are falsy
Truthy(x) ==
    CASE x.t = "none" -> FALSE
      [] x.t = "num" -> x.v /= 0
      [] x.t = "rat" -> x.n /= 0
      [] x.t = "str" -> x.s /= ""

\* dict.get(key) with the default None
Get(d, k) == IF k \in DOMAIN d THEN d[k] ELSE None

\* d[k] = v on a dict
Put(d, k, v) == [x \in (DOMAIN d) \cup {k} |-> IF x = k THEN v ELSE d[x]]

EmptyDict == [x \in {} |-> None]

Abs(x) == IF x < 0 THEN -x ELSE x

Min(a, b) == IF a <= b THEN a ELSE b

-----------------------------------------------------------------------------
(* Formatting: what the f-strings of the source print *)

Digits2(n) == IF n < 10 THEN "0" \o ToString(n) ELSE ToString(n)

\* q, or q + 1, for a quotient q whose doubled remainder is r2 (divisor d)
RoundPick(q, r2, d) ==
    IF r2 < d THEN q
    ELSE IF r2 > d THEN q + 1
    ELSE IF q % 2 = 0 THEN q ELSE q + 1

\* nearest integer to n/d (d > 0), ties to the even integer
RoundHalfEven(n, d) == RoundPick(n \div d, 2 * (n % d), d)

\* sign, integer part, point and two decimals of h hundredths (h >= 0)
FmtHundredths(neg, h) ==
    (IF neg THEN "-" ELSE "") \o ToString(h \div 100) \o "." \o Digits2(h % 100)

\* f"{x:.2f}" of the rational n/d (d > 0) counted in hundredths of the unit
\* printed: the sign is kept when a negative value rounds to zero ("-0.00")
Fmt2fRat(n, d) == FmtHundredths(n < 0, Abs(RoundHalfEven(n, d)))

\* f"{x:.2f}" of a fixed-point number of hundredths
Fmt2f(h) == Fmt2fRat(h, 1)

\* str() of a value placed in an f-string
PyStr(x) ==
    CASE x.t = "none" -> "None"
      [] x.t = "str" -> x.s
      [] x.t = "num" -> ToString(x.v)

\* '; '.join(reasons)
RECURSIVE Join(_)
Join(rs) ==
    IF Len(rs) = 0 THEN ""
    ELSE IF Len(rs) = 1 THEN rs[1]
    ELSE rs[1] \o "; " \o Join(Tail(rs))

\* str.startswith
StartsWith(s, p) == Len(s) >= Len(p) /\ SubSeq(s, 1, Len(p)) = p

-----------------------------------------------------------------------------
(* Exact comparisons of numbers *)

RN(x) == IF x.t = "rat" THEN x.n ELSE x.v
RD(x) == IF x.t = "rat" THEN x.d ELSE 1

\* x >= a/b for a number x with a positive denominator, b > 0
GE(x, a, b) == RN(x) * b >= a * RD(x)

-----------------------------------------------------------------------------
(* calculate_analyst_rating_score *)

calculate_analyst_rating_score(recommendation) ==
    IF recommendation = Str("Strong Buy") THEN
        [score |-> 100, reason |-> "Analysts strongly recommend buying based on consensus ratings."]
    ELSE IF recommendation = Str("Buy") THEN
        [score |-> 80, reason |-> "Analysts generally recommend buying."]
    ELSE IF recommendation = Str("Hold") THEN
        [score |-> 50, reason |-> "Analysts suggest holding, expecting modest performance."]
    ELSE IF recommendation = Str("Sell") THEN
        [score |-> 20, reason |-> "Analysts recommend selling due to anticipated underperformance."]
    ELSE IF recommendation = Str("Strong Sell") THEN
        [score |-> 0, reason |-> "Analysts strongly recommend selling due to significant concerns."]
    ELSE [score |-> 50, reason |-> "Analyst recommendation data unavailable or neutral."]

-----------------------------------------------------------------------------
(* calculate_analyst_upside_score: upside_percent is a fraction; the tiers   *)
(* are written in 1/10000.                                                   *)

\* f"{(upside_percent * 100):.2f}"
UpsidePct(u) == Fmt2fRat(10000 * RN(u), RD(u))

\* A variant that scores the lowest tier below zero.
UpsideTierNegative(u) ==
    IF GE(u, 2500, 10000) THEN 100
    ELSE IF GE(u, 1500, 10000) THEN 90
    ELSE IF GE(u, 800, 10000) THEN 75
    ELSE IF GE(u, 200, 10000) THEN 60
    ELSE IF GE(u, -500, 10000) THEN 40
    ELSE -10

\* A variant whose first tier excludes its lower bound.
UpsideTierExclusive(u) ==
    IF RN(u) * 10000 > 2500 * RD(u) THEN 100
    ELSE IF GE(u, 1500, 10000) THEN 90
    ELSE IF GE(u, 800, 10000) THEN 75
    ELSE IF GE(u, 200, 10000) THEN 60
    ELSE IF GE(u, -500, 10000) THEN 40
    ELSE 10

\* the tier of a numeric upside, first match wins
UpsideTier(u) ==
    IF GE(u, 2500, 10000) THEN 100
    ELSE IF GE(u, 1500, 10000) THEN 90
    ELSE IF GE(u, 800, 10000) THEN 75
    ELSE IF GE(u, 200, 10000) THEN 60
    ELSE IF GE(u, -500, 10000) THEN 40
    ELSE 10

\* the score s of a tier with its reason; p is the formatted percentage
UpsideResult(s, p) ==
    [score |-> s,
     reason |->
       CASE s = 100 -> "Significant upside potential of " \o p \o "% according to target prices."
         [] s = 90 -> "High upside potential of " \o p \o "% based on target prices."
         [] s = 75 -> "Moderate upside potential of " \o p \o "% based on target prices."
         [] s = 60 -> "Modest upside potential of " \o p \o "% based on target prices."
         [] s = 40 -> "Limited upside or slight downside of " \o p \o "% based on target prices."
         [] OTHER -> "Significant downside risk of " \o p \o "% based on target prices."]

calculate_analyst_upside_score(upside_percent) ==
    IF upside_percent = None \/ ~IsNumber(upside_percent) THEN
        [score |-> 50, reason |-> "Analyst target price or upside data not available."]
    ELSE UpsideResult(UpsideTier(upside_percent), UpsidePct(upside_percent))

-----------------------------------------------------------------------------
(* calculate_financial_analysis_score(info): info is a dict.  Each metric    *)
(* yields its contribution and its one reason.                               *)

\* isinstance(x, (int, float)) and x > 0
Positive(x) == IsNumber(x) /\ RN(x) > 0

\* the key under which the scorer looks up the trailing P/E (line 270)
FinancialPEKey == "trailingPE"

\* v is the metric and f its f"{...:.2f}" form
FinPETier(v, f) ==
    IF v < 1500 THEN
        [add |-> 25, reason |-> "Healthy Trailing P/E Ratio (" \o f \o ") indicates good valuation."]
    ELSE IF v < 2500 THEN
        [add |-> 15, reason |-> "Moderate Trailing P/E Ratio (" \o f \o ")."]
    ELSE
        [add |-> 5, reason |-> "High Trailing P/E Ratio (" \o f \o ") suggests potential overvaluation or high growth expectations."]

FinPE(pe_ratio) ==
    IF Positive(pe_ratio) THEN FinPETier(pe_ratio.v, Fmt2f(pe_ratio.v))
    ELSE [add |-> 0, reason |-> "Trailing P/E Ratio N/A or not positive, limiting valuation insight."]

FinForwardPETier(v, f) ==
    IF v < 1500 THEN
        [add |-> 20, reason |-> "Strong Forward P/E Ratio (" \o f \o ") suggests future earnings growth."]
    ELSE IF v < 2500 THEN
        [add |-> 10, reason |-> "Moderate Forward P/E Ratio (" \o f \o ")."]
    ELSE
        [add |-> 2, reason |-> "High Forward P/E Ratio (" \o f \o ")."]

FinForwardPE(forward_pe) ==
    IF Positive(forward_pe) THEN FinForwardPETier(forward_pe.v, Fmt2f(forward_pe.v))
    ELSE [add |-> 0, reason |-> "Forward P/E Ratio N/A or not positive."]

FinDividendTier(v, f) ==
    IF v >= 300 THEN
        [add |-> 20, reason |-> "Attractive Dividend Yield of " \o f \o "% provides income."]
    ELSE IF v >= 100 THEN
        [add |-> 10, reason |-> "Modest Dividend Yield of " \o f \o "%."]
    ELSE
        [add |-> 5, reason |-> "Low Dividend Yield of " \o f \o "%."]

FinDividend(dividend_yield) ==
    IF Positive(dividend_yield) THEN FinDividendTier(dividend_yield.v, Fmt2f(dividend_yield.v))
    ELSE [add |-> 0, reason |-> "No significant dividend yield, common for growth stocks or those reinvesting earnings."]

FinMarketCap(market_cap) ==
    IF Positive(market_cap) THEN
        IF market_cap.v >= 200 THEN
            [add |-> 15, reason |-> "Large market capitalization suggests stability and market leadership."]
        ELSE IF market_cap.v >= 10 THEN
            [add |-> 10, reason |-> "Solid large-cap market capitalization."]
        ELSE IF market_cap.v >= 2 THEN
            [add |-> 5, reason |-> "Mid-cap company with potential for growth."]
        ELSE
            [add |-> 0, reason |-> "Smaller market capitalization, potentially higher risk/reward."]
    ELSE [add |-> 0, reason |-> "Market capitalization data unavailable."]

FinBetaTier(v, f) ==
    IF v < 80 THEN
        [add |-> 20, reason |-> "Low Beta (" \o f \o ") indicates lower volatility relative to the market."]
    ELSE IF v < 120 THEN
        [add |-> 10, reason |-> "Moderate Beta (" \o f \o ") suggests volatility in line with the market."]
    ELSE
        [add |-> 5, reason |-> "High Beta (" \o f \o ") implies higher volatility and potentially higher risk."]

\* A variant that takes an absent beta for zero.
FinBetaAbsentAsZero(beta) ==
    IF IsNumber(beta) THEN FinBetaTier(beta.v, Fmt2f(beta.v))
    ELSE FinBetaTier(0, Fmt2f(0))

FinBeta(beta) ==
    IF IsNumber(beta) THEN FinBetaTier(beta.v, Fmt2f(beta.v))
    ELSE [add |-> 0, reason |-> "Beta (market volatility) data unavailable."]

LimitedFinancialReason == "Limited financial data available for comprehensive analysis."

\* lines 349-351: the capped score and the reasons, with the fallback for an
\* empty list
ScoreResult(score, reasons, fallback) ==
    [score |-> Min(100, score),
     reasons |-> IF reasons = <<>> THEN <<fallback>> ELSE reasons]

\* the five contributions summed, their reasons in the order of the source
FinTotal(pe, fpe, dy, mc, be) ==
    ScoreResult(pe.add + fpe.add + dy.add + mc.add + be.add,
                <<pe.reason, fpe.reason, dy.reason, mc.reason, be.reason>>,
                LimitedFinancialReason)

calculate_financial_analysis_score(d) ==
    FinTotal(FinPE(Get(d, FinancialPEKey)), FinForwardPE(Get(d, "forwardPE")),
             FinDividend(Get(d, "dividendYield")), FinMarketCap(Get(d, "marketCap")),
             FinBeta(Get(d, "beta")))

-----------------------------------------------------------------------------
(* calculate_technical_analysis_score(historical_data, current_price,       *)
(* fifty_two_week_high, fifty_two_week_low).  historical_data is None or a   *)
(* list of bars in chronological order, of which the scorer reads the Close  *)
(* only: a bar is its close, in cents.  The list is kept run-length encoded: *)
(* a sequence of runs [n, close] stands for the bars with that close         *)
(* repeated n times; BarCount is len() of the list and CloseAt its indexing. *)

HList(l) == [t |-> "list", l |-> l]

\* bars a 200-day moving average needs (line 360)
MinBars == 200

InsufficientHistoryReason ==
    "Insufficient historical data for comprehensive technical analysis (less than 200 days)."

\* len(historical_data)
RECURSIVE BarCount(_)
BarCount(runs) == IF runs = <<>> THEN 0 ELSE Head(runs).n + BarCount(Tail(runs))

\* Close of the i-th bar, 1 <= i <= BarCount(runs)
RECURSIVE CloseAt(_, _)
CloseAt(runs, i) ==
    IF i <= Head(runs).n THEN Head(runs).close ELSE CloseAt(Tail(runs), i - Head(runs).n)

\* closes lo..hi summed, by halves
RECURSIVE SumRange(_, _, _)
SumRange(h, lo, hi) ==
    IF lo > hi THEN 0
    ELSE IF lo = hi THEN CloseAt(h, lo)
    ELSE LET mid == (lo + hi) \div 2
         IN  SumRange(h, lo, mid) + SumRange(h, mid + 1, hi)

\* sum of the last k elements of h (k <= Len(h)): the numerator of
\* rolling(window=k).mean().iloc[-1]
SumLast(h, k) == SumRange(h, BarCount(h) - k + 1, BarCount(h))

\* A gate that lets a short history through to the sub-scores.
TechGateOpenMutant(historical_data) == historical_data.t = "list" /\ BarCount(historical_data.l) > 0

\* the history passes the gate of line 360
TechGateOpen(historical_data) ==
    /\ historical_data.t = "list"
    /\ BarCount(historical_data.l) > 0
    /\ BarCount(historical_data.l) >= MinBars

\* lines 384-395: above50 and above200 compare the price with the averages;
\* p, m50, m200 are the formatted price and averages
TechMATier(above50, above200, p, m50, m200) ==
    IF above50 /\ above200 THEN
        [add |-> 40, reason |-> "Price (" \o p \o ") is above 50-day (" \o m50 \o ") and 200-day (" \o m200 \o ") moving averages (Bullish trend)."]
    ELSE IF above50 THEN
        [add |-> 25, reason |-> "Price (" \o p \o ") is above 50-day moving average (" \o m50 \o ") (Positive short-term momentum)."]
    ELSE IF above200 THEN
        [add |-> 15, reason |-> "Price (" \o p \o ") is above 200-day moving average (" \o m200 \o ") (Long-term trend support)."]
    ELSE
        [add |-> 5, reason |-> "Price (" \o p \o ") is below key moving averages, indicating bearish pressure."]

\* s50, s200 are the sums of the last 50 and 200 closes, so that the averages
\* are s50/50 and s200/200
TechMASums(price, s50, s200) ==
    TechMATier(50 * price > s50, MinBars * price > s200, Fmt2f(price),
               Fmt2fRat(s50, 50), Fmt2fRat(s200, MinBars))

\* MA crossover (lines 376-397)
TechMA(h, price) ==
    IF BarCount(h) >= 50 /\ BarCount(h) >= MinBars
    THEN TechMASums(price, SumLast(h, 50), SumLast(h, MinBars))
    ELSE [add |-> 0, reason |-> "Not enough data to calculate 50-day or 200-day moving averages."]

\* lines 402-420: pos is current_price - low and price_range is high - low;
\* p, hi, lo are the formatted price and bounds
TechRangeTier(pos, price_range, p, hi, lo) ==
    IF price_range > 0 THEN
        IF 10 * pos >= 9 * price_range THEN
            [add |-> 30, reason |-> "Price is near 52-week high (" \o hi \o "), showing strong upward momentum."]
        ELSE IF 10 * pos >= 7 * price_range THEN
            [add |-> 20, reason |-> "Price is in the upper range of 52-week performance (" \o p \o ")."]
        ELSE IF 10 * pos <= price_range THEN
            [add |-> 0, reason |-> "Price is near 52-week low (" \o lo \o "), indicating weakness."]
        ELSE IF 10 * pos <= 3 * price_range THEN
            [add |-> 5, reason |-> "Price is in the lower range of 52-week performance (" \o p \o ")."]
        ELSE
            [add |-> 10, reason |-> "Price is in the mid-range of its 52-week performance (" \o p \o ")."]
    ELSE [add |-> 0, reason |-> "52-week high and low are too close or invalid for range analysis."]

\* 52-week range (lines 400-422): price is a number of cents
TechRange(price, high, low) ==
    IF Truthy(high) /\ Truthy(low) /\ price /= 0
    THEN TechRangeTier(price - low.v, high.v - low.v, Fmt2f(price), Fmt2f(high.v), Fmt2f(low.v))
    ELSE [add |-> 0, reason |-> "52-Week High/Low data not available for range analysis."]

\* lines 428-446: diff is end_price - start_price; pct is the formatted
\* abs(recent_change) * 100; closes are not negative
TechMomentumTier(diff, start_price, pct) ==
    IF start_price /= 0 THEN
        IF 100 * diff >= 5 * start_price THEN
            [add |-> 30, reason |-> "Strong recent performance: Price up " \o pct \o "% over the last month."]
        ELSE IF 100 * diff >= start_price THEN
            [add |-> 20, reason |-> "Positive recent performance: Price up " \o pct \o "% over the last month."]
        ELSE IF 100 * diff <= -5 * start_price THEN
            [add |-> 0, reason |-> "Weak recent performance: Price down " \o pct \o "% over the last month."]
        ELSE IF diff < 0 THEN
            [add |-> 10, reason |-> "Slightly negative recent performance: Price down " \o pct \o "% over the last month."]
        ELSE
            [add |-> 15, reason |-> "Stable recent performance over the last month."]
    ELSE [add |-> 0, reason |-> "Cannot calculate recent performance due to zero starting price."]

\* start_price is Close.iloc[-20], end_price is Close.iloc[-1]
TechMomentumOf(start_price, end_price) ==
    TechMomentumTier(end_price - start_price, start_price,
                     Fmt2fRat(10000 * Abs(end_price - start_price), start_price))

\* recent performance (lines 425-448)
TechMomentum(h) ==
    IF BarCount(h) >= 20
    THEN TechMomentumOf(CloseAt(h, BarCount(h) - 19), CloseAt(h, BarCount(h)))
    ELSE [add |-> 0, reason |-> "Insufficient data for recent price performance analysis (less than 1 month)."]

LimitedTechnicalReason == "Limited technical data available for comprehensive analysis."

\* lines 450-452: pre holds the reason of the price fallback, if any
TechTotal(pre, ma, rg, mo) ==
    ScoreResult(ma.add + rg.add + mo.add, pre \o <<ma.reason, rg.reason, mo.reason>>,
                LimitedTechnicalReason)

\* the three sub-scores for the price used
TechWithPrice(h, price, pre, high, low) ==
    TechTotal(pre, TechMA(h, price), TechRange(price, high, low), TechMomentum(h))

calculate_technical_analysis_score(historical_data, current_price, fifty_two_week_high, fifty_two_week_low) ==
    IF ~TechGateOpen(historical_data) THEN
        [score |-> 50, reasons |-> <<InsufficientHistoryReason>>]
    ELSE IF current_price = None \/ ~IsNumber(current_price) THEN
        \* lines 370-373: fall back to the last close
        TechWithPrice(historical_data.l,
                      CloseAt(historical_data.l, BarCount(historical_data.l)),
                      <<"Using last available closing price for current price in technical analysis.">>,
                      fifty_two_week_high, fifty_two_week_low)
    ELSE TechWithPrice(historical_data.l, current_price.v, <<>>,
                       fifty_two_week_high, fifty_two_week_low)

-----------------------------------------------------------------------------
(* calculate_overall_score_and_reasons(stock_data)                           *)

PyDict(d) == [t |-> "dict", d |-> d]

\* Rounding that sends exact halves upward.
RoundHalfUp(total) == (total + 2) \div 4

\* int(round(0.25*a + 0.25*b + 0.25*c + 0.25*d, 0)) of a total a+b+c+d: the
\* products and their sum are exact in binary floating point, and round()
\* sends an exact half to the even integer
RoundQuarter(total) == RoundHalfEven(total, 4)

\* Thresholds that exclude their lower bound.
SuggestionExclusive(overallScore) ==
    IF overallScore > 85 THEN "Strong Buy"
    ELSE IF overallScore > 70 THEN "Buy"
    ELSE IF overallScore > 50 THEN "Hold"
    ELSE IF overallScore > 30 THEN "Sell"
    ELSE "Strong Sell"

\* lines 502-516: the suggestion of an overall score
Suggestion(overallScore) ==
    IF overallScore >= 85 THEN "Strong Buy"
    ELSE IF overallScore >= 70 THEN "Buy"
    ELSE IF overallScore >= 50 THEN "Hold"
    ELSE IF overallScore >= 30 THEN "Sell"
    ELSE "Strong Sell"

\* lines 504-516: the sentence inserted at index 0 of the reasons
OverallSentence(suggestion) ==
    CASE suggestion = "Strong Buy" ->
           "**Overall Recommendation: Strong Buy** - The stock exhibits excellent performance across all key indicators, suggesting a high-conviction buying opportunity."
      [] suggestion = "Buy" ->
           "**Overall Recommendation: Buy** - The stock shows strong potential with favorable analyst sentiment, solid financials, and positive technical trends."
      [] suggestion = "Hold" ->
           "**Overall Recommendation: Hold** - The stock presents a balanced profile. Consider holding if already invested, or wait for clearer signals if not."
      [] suggestion = "Sell" ->
           "**Overall Recommendation: Sell** - The stock shows some concerning indicators across analyst, financial, or technical fronts. Consider exiting your position."
      [] suggestion = "Strong Sell" ->
           "**Overall Recommendation: Strong Sell** - The stock demonstrates significant weaknesses, indicating a high risk and strong recommendation to sell."

\* Reading the recommendation from the key the aggregator itself writes.
RecommendationKeyMutant == "suggestion"

\* the key under which the aggregator looks up the recommendation (line 465)
RecommendationKey == "analystRecommendation"

\* Reasons laid out with the technical line before the financial line.
MetricLinesSwapped(ar, au, fa, ta) == <<ar, au, ta, fa>>

\* lines 468-488: the order in which the per-metric lines are appended
MetricLines(ar, au, fa, ta) == <<ar, au, fa, ta>>

\* line 474 formats analyst_upside * 100 with :.2f, which raises TypeError
\* (None) or ValueError (a string) unless analyst_upside is a number
UpsideLineRaises(analyst_upside) == ~IsNumber(analyst_upside)

\* lines 468-488: a per-metric line of the reasons
MetricLine(label, detail, score) ==
    label \o ": " \o detail \o " (Score: " \o ToString(score) \o "%)"

\* lines 498-518: stock_data with the four keys analyze writes
WriteReport(stock_data, overallScore, score_breakdown, suggestion, lines) ==
    Put(Put(Put(Put(stock_data,
        "overallScore", Num(overallScore)),
        "scoreBreakdown", PyDict(score_breakdown)),
        "suggestion", Str(suggestion)),
        "reasons", HList(<<OverallSentence(suggestion)>> \o lines))

\* lines 490-518 for the overall score reached
Conclude(stock_data, overallScore, score_breakdown, lines) ==
    WriteReport(stock_data, overallScore, score_breakdown, Suggestion(overallScore), lines)

\* lines 464-518 for the four results ar, au, fa, ta of the scorers
Aggregate(stock_data, analyst_recommendation, analyst_upside, ar, au, fa, ta) ==
    Conclude(stock_data,
             RoundQuarter(ar.score + au.score + fa.score + ta.score),
             [analystRating |-> ar.score, analystUpside |-> au.score,
              financialAnalysis |-> fa.score, technicalAnalysis |-> ta.score],
             MetricLines(
                 MetricLine("Analyst Rating",
                            PyStr(analyst_recommendation) \o " - " \o ar.reason, ar.score),
                 MetricLine("Analyst Upside",
                            UpsidePct(analyst_upside) \o "% - " \o au.reason, au.score),
                 MetricLine("Financial Analysis", Join(fa.reasons), fa.score),
                 MetricLine("Technical Analysis", Join(ta.reasons), ta.score)))

\* stock_data.get('historicalData', [])
HistoricalDataOf(stock_data) ==
    IF "historicalData" \in DOMAIN stock_data
    THEN stock_data["historicalData"] ELSE HList(<<>>)

\* the scorers run on the snapshot
RunScorers(stock_data, analyst_recommendation, analyst_upside) ==
    Aggregate(stock_data, analyst_recommendation, analyst_upside,
              calculate_analyst_rating_score(analyst_recommendation),
              calculate_analyst_upside_score(analyst_upside),
              calculate_financial_analysis_score(stock_data),
              calculate_technical_analysis_score(HistoricalDataOf(stock_data),
                  Get(stock_data, "currentPrice"), Get(stock_data, "52WeekHigh"),
                  Get(stock_data, "52WeekLow")))

\* the result is [raised, data]: data is stock_data after the call, which is
\* the same dict object as before it, mutated at lines 498-518 unless line
\* 474 raised first
calculate_overall_score_and_reasons(stock_data) ==
    IF UpsideLineRaises(Get(stock_data, "analystUpside"))
    THEN [raised |-> TRUE, data |-> stock_data]
    ELSE [raised |-> FALSE,
          data |-> RunScorers(stock_data, Get(stock_data, RecommendationKey),
                              Get(stock_data, "analystUpside"))]

\* the AnalysisReport part of an analyzed snapshot
ReportOf(stock_data) ==
    [st |-> "report",
     overallScore |-> stock_data["overallScore"].v,
     suggestion |-> stock_data["suggestion"].s,
     scoreBreakdown |-> stock_data["scoreBreakdown"].d,
     reasons |-> stock_data["reasons"].l]

-----------------------------------------------------------------------------
(* fetch_stock_data_from_yfinance(ticker)                                    *)

\* line 37: 3600 * 4 seconds
CACHE_EXPIRATION_SECONDS == 14400

\* line 109: time.sleep(30) before every fetch from the provider
FetchSleepSeconds == 30

Lowers == "abcdefghijklmnopqrstuvwxyz"
Uppers == "ABCDEFGHIJKLMNOPQRSTUVWXYZ"

\* index of the one-character string c in s from i on, 0 when absent
RECURSIVE Pos(_, _, _)
Pos(c, s, i) ==
    IF i > Len(s) THEN 0 ELSE IF SubSeq(s, i, i) = c THEN i ELSE Pos(c, s, i + 1)

ToUpper(c) == LET i == Pos(c, Lowers, 1) IN IF i > 0 THEN SubSeq(Uppers, i, i) ELSE c
ToLower(c) == LET i == Pos(c, Uppers, 1) IN IF i > 0 THEN SubSeq(Lowers, i, i) ELSE c
IsLetter(c) == Pos(c, Lowers, 1) > 0 \/ Pos(c, Uppers, 1) > 0

\* s.replace('_', ' ').title() from character i on; inWord tells whether the
\* previous character was a letter
RECURSIVE TitleFrom(_, _, _)
TitleFrom(s, i, inWord) ==
    IF i > Len(s) THEN ""
    ELSE LET c0 == SubSeq(s, i, i)
             c == IF c0 = "_" THEN " " ELSE c0
         IN  (IF inWord THEN ToLower(c) ELSE ToUpper(c)) \o TitleFrom(s, i + 1, IsLetter(c))

\* line 192: info.get('recommendationKey', 'Data Unavailable').replace('_', ' ').title()
\* raises AttributeError when the key is present with the value None
RecommendationRaises(inf) ==
    "recommendationKey" \in DOMAIN inf /\ inf["recommendationKey"].t /= "str"

AnalystRecommendation(inf) ==
    LET key == IF "recommendationKey" \in DOMAIN inf
               THEN inf["recommendationKey"].s ELSE "Data Unavailable"
    IN  Str(TitleFrom(key, 1, FALSE))

\* lines 196-199
AnalystUpside(target, current) ==
    IF Truthy(target) /\ Truthy(current) /\ current.v /= 0
    THEN IF current.v > 0 THEN Rat(target.v - current.v, current.v)
         ELSE Rat(current.v - target.v, -current.v)
    ELSE None

\* line 166: the key under which the snapshot stores info['trailingPE']
TrailingPEStoreKey == "peRatio"

\* lines 138-208: the snapshot built from the provider's info and history.
\* The keys that no scorer reads and analyze does not write (companyName,
\* openPrice, previousClose, dayHigh, dayLow, volume, currency, industry,
\* sector, fullTimeEmployees, businessSummary, weburl, priceChange,
\* percentChange, exDividendDate, ipo) are left out.
BuildStockData(ticker, inf, history) ==
    LET currentPrice == Get(inf, "currentPrice")
        target == Get(inf, "targetMeanPrice")
        base == [k \in {"ticker", "currentPrice", "marketCap", "forwardPE",
                        "dividendYield", "beta", "52WeekHigh", "52WeekLow",
                        "analystRecommendation", "analystTargetPrice",
                        "analystUpside", "historicalData"} |->
                  CASE k = "ticker" -> Str(ticker)
                    [] k = "currentPrice" -> currentPrice
                    [] k = "marketCap" -> Get(inf, "marketCap")
                    [] k = "forwardPE" -> Get(inf, "forwardPE")
                    [] k = "dividendYield" -> Get(inf, "dividendYield")
                    [] k = "beta" -> Get(inf, "beta")
                    [] k = "52WeekHigh" -> Get(inf, "fiftyTwoWeekHigh")
                    [] k = "52WeekLow" -> Get(inf, "fiftyTwoWeekLow")
                    [] k = "analystRecommendation" -> AnalystRecommendation(inf)
                    [] k = "analystTargetPrice" -> target
                    [] k = "analystUpside" -> AnalystUpside(target, currentPrice)
                    [] k = "historicalData" -> HList(history)]
    IN  Put(base, TrailingPEStoreKey, Get(inf, "trailingPE"))

\* what one contact with the provider can end in
FetchOutcomes == {"ok", "rate_limited", "empty_info", "unexpected", "history_error"}

\* A fetch whose outer handler reports the error of ticker_obj.history() but
\* keeps the partial snapshot built so far.
FetchFreshKeepsPartial(ticker, prov, outcome) ==
    CASE outcome = "rate_limited" ->
           [data |-> EmptyDict,
            errors |-> <<"Rate limit hit for " \o ticker \o " (429 Too Many Requests) after multiple retries. Please try again later.">>]
      [] outcome = "empty_info" ->
           [data |-> EmptyDict,
            errors |-> <<"No info data found for " \o ticker \o " after multiple retries. Error: Yfinance returned empty info data.">>]
      [] outcome = "unexpected" ->
           [data |-> EmptyDict,
            errors |-> <<"An unexpected error occurred while fetching info for " \o ticker \o ": error">>]
      [] outcome \in {"history_error", "ok"} /\ RecommendationRaises(prov.info) ->
           [data |-> EmptyDict,
            errors |-> <<"yfinance data fetch error: 'NoneType' object has no attribute 'replace'">>]
      [] outcome = "history_error" /\ ~RecommendationRaises(prov.info) ->
           [data |-> BuildStockData(ticker, prov.info, <<>>),
            errors |-> <<"yfinance data fetch error: error">>]
      [] outcome = "ok" /\ ~RecommendationRaises(prov.info) ->
           [data |-> BuildStockData(ticker, prov.info, prov.history),
            errors |-> IF prov.history = <<>>
                       THEN <<"No historical data found for " \o ticker \o ".">>
                       ELSE <<>>]

\* lines 111-227 after a cache miss: [data, errors] for an outcome of the
\* provider; prov is [info, history]
FetchFresh(ticker, prov, outcome) ==
    CASE outcome = "rate_limited" ->
           [data |-> EmptyDict,
            errors |-> <<"Rate limit hit for " \o ticker \o " (429 Too Many Requests) after multiple retries. Please try again later.">>]
      [] outcome = "empty_info" ->
           [data |-> EmptyDict,
            errors |-> <<"No info data found for " \o ticker \o " after multiple retries. Error: Yfinance returned empty info data.">>]
      [] outcome = "unexpected" ->
           [data |-> EmptyDict,
            errors |-> <<"An unexpected error occurred while fetching info for " \o ticker \o ": error">>]
      [] outcome = "history_error" ->
           [data |-> EmptyDict, errors |-> <<"yfinance data fetch error: error">>]
      [] outcome = "ok" ->
           IF RecommendationRaises(prov.info) THEN
               [data |-> EmptyDict,
                errors |-> <<"yfinance data fetch error: 'NoneType' object has no attribute 'replace'">>]
           ELSE
               [data |-> BuildStockData(ticker, prov.info, prov.history),
                errors |-> IF prov.history = <<>>
                           THEN <<"No historical data found for " \o ticker \o ".">>
                           ELSE <<>>]

\* A cache that still answers when the entry is exactly 4 hours old.
CacheFreshInclusive(cache, ticker, current_time) ==
    /\ ticker \in DOMAIN cache
    /\ current_time - cache[ticker].timestamp <= CACHE_EXPIRATION_SECONDS

\* lines 100-101: the cache answers
CacheFresh(cache, ticker, current_time) ==
    /\ ticker \in DOMAIN cache
    /\ current_time - cache[ticker].timestamp < CACHE_EXPIRATION_SECONDS

-----------------------------------------------------------------------------
(* Bounds and the inputs drawn from them *)

\* bars of the longest history
MaxBars == 201

\* the clock stops here
MaxTime == 14430

\* requests to /api/stock_data in one run
MaxRequests == 2

Tickers == {"AAPL"}

\* a history of n closes (none, or at least 20): level a, then level b from
\* Close.iloc[-20] on, and the last close c
MkHist(n, a, b, c) ==
    IF n = 0 THEN <<>>
    ELSE <<[n |-> n - 20, close |-> a], [n |-> 19, close |-> b], [n |-> 1, close |-> c]>>

\* histories with their 52-week bounds
TechProfiles ==
    { [history |-> MkHist(0, 0, 0, 0), high |-> Num(15000), low |-> Num(5000)],
      [history |-> MkHist(MinBars - 1, 8000, 9000, 10000), high |-> Num(10500), low |-> Num(5000)],
      [history |-> MkHist(MinBars, 9000, 10000, 10000), high |-> Num(15000), low |-> Num(5000)],
      [history |-> MkHist(MinBars, 8000, 10000, 9500), high |-> Num(12000), low |-> Num(5000)],
      [history |-> MkHist(MaxBars, 8000, 9000, 10000), high |-> Num(10500), low |-> Num(5000)],
      [history |-> MkHist(MaxBars, 12000, 11000, 10900), high |-> Num(12000), low |-> Num(12000)] }

\* trailing P/E, forward P/E, dividend yield, market cap, beta
FinProfiles ==
    { [trailingPE |-> None, forwardPE |-> None, dividendYield |-> None, marketCap |-> None, beta |-> None],
      [trailingPE |-> Num(1000), forwardPE |-> Num(1000), dividendYield |-> Num(400), marketCap |-> Num(300), beta |-> Num(50)],
      [trailingPE |-> None, forwardPE |-> Num(1000), dividendYield |-> None, marketCap |-> None, beta |-> Num(100)],
      [trailingPE |-> Num(2000), forwardPE |-> Num(3000), dividendYield |-> Num(0), marketCap |-> Num(1), beta |-> Num(100)] }

\* target mean price and current price
PriceProfiles ==
    { [target |-> Num(12500), current |-> Num(10000)],
      [target |-> Num(10000), current |-> Num(10000)],
      [target |-> Num(9400), current |-> Num(10000)],
      [target |-> None, current |-> Num(10000)] }

\* prices that are zero or missing
OddPriceProfiles ==
    { [target |-> Num(11500), current |-> Num(0)],
      [target |-> Num(0), current |-> Num(10000)],
      [target |-> Num(12500), current |-> None] }

\* recommendationKey: a key of the provider, or no such key
RecProfiles == {Str("strong_buy"), Str("hold"), Str("strong_sell"), [t |-> "absent"]}

\* recommendationKey present with an unknown label or with the value None
OddRecProfiles == {Str("none"), None}

MkInfo(rec, pr, fin, tech) ==
    LET keys == {"currentPrice", "targetMeanPrice", "trailingPE", "forwardPE",
                 "dividendYield", "marketCap", "beta", "fiftyTwoWeekHigh",
                 "fiftyTwoWeekLow"}
                \cup (IF rec.t = "absent" THEN {} ELSE {"recommendationKey"})
    IN  [k \in keys |->
          CASE k = "currentPrice" -> pr.current
            [] k = "targetMeanPrice" -> pr.target
            [] k = "trailingPE" -> fin.trailingPE
            [] k = "forwardPE" -> fin.forwardPE
            [] k = "dividendYield" -> fin.dividendYield
            [] k = "marketCap" -> fin.marketCap
            [] k = "beta" -> fin.beta
            [] k = "fiftyTwoWeekHigh" -> tech.high
            [] k = "fiftyTwoWeekLow" -> tech.low
            [] k = "recommendationKey" -> rec]

MkProvider(rec, pr, fin, tech) ==
    [info |-> MkInfo(rec, pr, fin, tech), history |-> tech.history]

Providers ==
    { MkProvider(rec, pr, fin, tech) :
        rec \in RecProfiles, pr \in PriceProfiles, fin \in FinProfiles, tech \in TechProfiles }
    \cup { MkProvider(Str("buy"), pr, fin, tech) :
        pr \in OddPriceProfiles, fin \in FinProfiles, tech \in TechProfiles }
    \cup { MkProvider(rec, pr, fin, tech) :
        rec \in OddRecProfiles, pr \in PriceProfiles, fin \in FinProfiles,
        tech \in {x \in TechProfiles : BarCount(x.history) = MinBars - 1} }

NoReport == [st |-> "none"]
Raised == [st |-> "raised"]
NoArgs == [fn |-> "none"]
Pending == [st |-> "pending"]

-----------------------------------------------------------------------------
(* The serving layer *)

\* no request to /api/watchlist: the file holds the empty list that the
\* startup writes (lines 589-590)
WatchlistIdle ==
    /\ watchlistFile = HList(<<>>)
    /\ requests = <<>>
    /\ acked = {}

NoCall == [outcome |-> "none"]

Init ==
    /\ provider \in Providers
    /\ STOCK_DATA_CACHE = EmptyDict
    /\ now = 0
    /\ served = 0
    /\ response = [status |-> 0]
    /\ lastReport = NoReport
    /\ prevReport = NoReport
    /\ args = NoArgs
    /\ result = Pending
    /\ lastCall = NoCall
    /\ calls = <<>>
    /\ WatchlistIdle

\* one call of fetch_stock_data_from_yfinance: its argument, the current_time
\* of line 99, how it ended ("cache" or an outcome of the provider), the
\* (stock_data, errors) it returned, and whether the caller went on to
\* calculate_overall_score_and_reasons with that stock_data
FetchCall(ticker, current_time, outcome, data, errors, analyzed) ==
    [ticker |-> ticker, start |-> current_time, outcome |-> outcome,
     data |-> data, errors |-> errors, analyzed |-> analyzed]

\* lines 580-583: a is what analyze returned for the snapshot; cache is
\* STOCK_DATA_CACHE as the fetch left it.  The snapshot is the dict object
\* the cache entry holds, so what analyze writes to it is in the cache too.
ServeAnalyzed(ticker, cache, data, errors, outcome, hit, a) ==
    /\ lastCall' = FetchCall(ticker, now, outcome, data, errors, TRUE)
    /\ STOCK_DATA_CACHE' = [cache EXCEPT ![ticker].data = a.data]
    /\ prevReport' = IF hit THEN lastReport ELSE NoReport
    /\ lastReport' = IF a.raised THEN Raised ELSE ReportOf(a.data)
    /\ response' = IF a.raised THEN [status |-> 500]
                   ELSE [status |-> 200, success |-> TRUE,
                         stockData |-> a.data, errors |-> errors]

\* lines 578-585 on the snapshot and errors the fetch returned
Serve(ticker, cache, data, errors, outcome, hit) ==
    IF DOMAIN data /= {} THEN
        ServeAnalyzed(ticker, cache, data, errors, outcome, hit,
                      calculate_overall_score_and_reasons(data))
    ELSE
        /\ lastCall' = FetchCall(ticker, now, outcome, data, errors, FALSE)
        /\ STOCK_DATA_CACHE' = cache
        /\ UNCHANGED <<lastReport, prevReport>>
        /\ response' = [status |-> 404, success |-> FALSE, detailedErrors |-> errors]

\* GET /api/stock_data?ticker=T answered from the cache (lines 99-103)
GetStockDataCached(ticker) ==
    /\ served < MaxRequests
    /\ CacheFresh(STOCK_DATA_CACHE, ticker, now)
    /\ served' = served + 1
    /\ Serve(ticker, STOCK_DATA_CACHE, STOCK_DATA_CACHE[ticker].data, <<>>, "cache", TRUE)
    /\ UNCHANGED <<provider, now, args, result>>
    /\ UNCHANGED watchVars

\* lines 220-227: the result is cached if it is not empty
CacheStore(cache, ticker, data, current_time) ==
    IF DOMAIN data /= {}
    THEN Put(cache, ticker, [data |-> data, timestamp |-> current_time])
    ELSE cache

\* the rest of the request for what the provider returned
ServeFetched(ticker, fetched, outcome, current_time) ==
    Serve(ticker, CacheStore(STOCK_DATA_CACHE, ticker, fetched.data, current_time),
          fetched.data, fetched.errors, outcome, FALSE)

\* GET /api/stock_data?ticker=T answered by the provider (lines 105-227)
GetStockDataFresh(ticker, outcome) ==
    /\ served < MaxRequests
    /\ ~CacheFresh(STOCK_DATA_CACHE, ticker, now)
    /\ now + FetchSleepSeconds <= MaxTime
    /\ served' = served + 1
    /\ now' = now + FetchSleepSeconds
    /\ ServeFetched(ticker, FetchFresh(ticker, provider, outcome), outcome, now)
    /\ UNCHANGED <<provider, args, result>>
    /\ UNCHANGED watchVars

\* GET /api/stock_data without a ticker (lines 574-576)
GetStockDataNoTicker ==
    /\ served < MaxRequests
    /\ served' = served + 1
    /\ response' = [status |-> 400, success |-> FALSE]
    /\ lastCall' = NoCall
    /\ UNCHANGED <<provider, STOCK_DATA_CACHE, now, lastReport, prevReport, args, result>>
    /\ UNCHANGED watchVars

\* time passes between requests
Tick(d) ==
    /\ now + d <= MaxTime
    /\ now' = now + d
    /\ UNCHANGED <<provider, STOCK_DATA_CACHE, served, response, lastReport,
                   prevReport, args, result, lastCall>>
    /\ UNCHANGED watchVars

TickSteps == {CACHE_EXPIRATION_SECONDS - FetchSleepSeconds - 1,
              CACHE_EXPIRATION_SECONDS - FetchSleepSeconds}

Next ==
    \/ \E t \in Tickers : GetStockDataCached(t)
    \/ \E t \in Tickers, o \in FetchOutcomes : GetStockDataFresh(t, o)
    \/ GetStockDataNoTicker
    \/ \E d \in TickSteps : Tick(d)

Spec == Init /\ [][Next]_vars

-----------------------------------------------------------------------------
(* Direct calls of the four scorers on inputs drawn from bounded sets *)

RatingInputs ==
    {Str("Strong Buy"), Str("Buy"), Str("Hold"), Str("Sell"), Str("Strong Sell"),
     Str("Data Unavailable"), Str("None"), Str("strong buy"), None}

\* upside fractions in 1/10000 around every tier bound
UpsideInputs ==
    {None, Str("N/A")}
    \cup {Rat(n, 10000) : n \in {10000, 2501, 2500, 2499, 1500, 1499, 800, 799,
                                 200, 199, 0, -1, -499, -500, -501, -10000}}

PEInputs == {None, Str("N/A"), Num(-500), Num(0), Num(1000), Num(1499), Num(1500), Num(2499), Num(2500)}
DividendInputs == {None, Num(-100), Num(0), Num(50), Num(99), Num(100), Num(299), Num(300), Num(400)}
MarketCapInputs == {None, Num(0), Num(1), Num(2), Num(9), Num(10), Num(199), Num(200), Num(300)}
BetaInputs == {None, Num(-50), Num(50), Num(79), Num(80), Num(119), Num(120)}

MkFinancialInfo(pe, fpe, dy, mc, be) ==
    [k \in {"trailingPE", "forwardPE", "dividendYield", "marketCap", "beta"} |->
       CASE k = "trailingPE" -> pe
         [] k = "forwardPE" -> fpe
         [] k = "dividendYield" -> dy
         [] k = "marketCap" -> mc
         [] k = "beta" -> be]

\* every metric over its tiers with the others present or absent, and the
\* dict without any key
FinancialInputs ==
    {EmptyDict}
    \cup { MkFinancialInfo(pe, fpe, dy, mc, be) :
             pe \in PEInputs, fpe \in {None, Num(1000), Num(3000)},
             dy \in {None, Num(400)}, mc \in {None, Num(300)}, be \in {None, Num(50)} }
    \cup { MkFinancialInfo(pe, fpe, dy, mc, be) :
             pe \in {None, Num(1000)}, fpe \in PEInputs,
             dy \in DividendInputs, mc \in {None, Num(300)}, be \in {None, Num(50)} }
    \cup { MkFinancialInfo(pe, fpe, dy, mc, be) :
             pe \in {None, Num(1000)}, fpe \in {None, Num(1000)},
             dy \in {None, Num(400)}, mc \in MarketCapInputs, be \in BetaInputs }

HistoryInputs ==
    {None, HList(<<>>)}
    \cup { HList(MkHist(n, a, b, c)) :
             n \in {20, MinBars - 1, MinBars, MaxBars},
             a \in {8000, 12000}, b \in {0, 10000}, c \in {9500, 10000, 10090, 10500} }

PriceInputs == {None, Num(0), Num(9000), Num(10000)}

RangeInputs ==
    { [high |-> None, low |-> None], [high |-> Num(12000), low |-> None],
      [high |-> Num(12000), low |-> Num(0)], [high |-> Num(12000), low |-> Num(12000)],
      [high |-> Num(10500), low |-> Num(5000)], [high |-> Num(15000), low |-> Num(5000)],
      [high |-> Num(20000), low |-> Num(9500)] }

\* the snapshots the fetch builds from the providers
AnalyzeInputs ==
    { BuildStockData("AAPL", p.info, p.history) :
        p \in {q \in Providers : ~RecommendationRaises(q.info)} }

ScorerArgs ==
    { [fn |-> "rating", recommendation |-> r] : r \in RatingInputs }
    \cup { [fn |-> "analyze", stock_data |-> d] : d \in AnalyzeInputs }
    \cup { [fn |-> "upside", upside_percent |-> u] : u \in UpsideInputs }
    \cup { [fn |-> "financial", info |-> d] : d \in FinancialInputs }
    \cup { [fn |-> "technical", historical_data |-> h, current_price |-> p,
            fifty_two_week_high |-> r.high, fifty_two_week_low |-> r.low] :
             h \in HistoryInputs, p \in PriceInputs, r \in RangeInputs }

InitScorers ==
    /\ args \in ScorerArgs
    /\ result = Pending
    /\ provider = [info |-> EmptyDict, history |-> <<>>]
    /\ STOCK_DATA_CACHE = EmptyDict
    /\ now = 0
    /\ served = 0
    /\ response = [status |-> 0]
    /\ lastReport = NoReport
    /\ prevReport = NoReport
    /\ lastCall = NoCall
    /\ calls = <<>>
    /\ WatchlistIdle

Return(r) ==
    /\ result = Pending
    /\ result' = [st |-> "returned", value |-> r]
    /\ UNCHANGED <<provider, STOCK_DATA_CACHE, now, served, response, lastReport,
                   prevReport, args, lastCall>>
    /\ UNCHANGED watchVars

CallRating ==
    /\ args.fn = "rating"
    /\ Return(calculate_analyst_rating_score(args.recommendation))

CallUpside ==
    /\ args.fn = "upside"
    /\ Return(calculate_analyst_upside_score(args.upside_percent))

CallFinancial ==
    /\ args.fn = "financial"
    /\ Return(calculate_financial_analysis_score(args.info))

CallTechnical ==
    /\ args.fn = "technical"
    /\ Return(calculate_technical_analysis_score(args.historical_data, args.current_price,
                  args.fifty_two_week_high, args.fifty_two_week_low))

CallAnalyze ==
    /\ args.fn = "analyze"
    /\ Return(calculate_overall_score_and_reasons(args.stock_data))

NextScorers == CallRating \/ CallUpside \/ CallFinancial \/ CallTechnical \/ CallAnalyze

SpecScorers == InitScorers /\ [][NextScorers]_vars

-----------------------------------------------------------------------------
(* Direct calls of fetch_stock_data_from_yfinance, one after the other *)

\* calls of the fetch in one run
MaxFetches == 3

FetchTickers == {"AAPL", "MSFT"}

\* a provider with a year of history, one without history, and one whose
\* recommendationKey is None
FetchProviders ==
    { MkProvider(Str("hold"), [target |-> Num(12500), current |-> Num(10000)],
                 [trailingPE |-> Num(1000), forwardPE |-> Num(1000), dividendYield |-> Num(400),
                  marketCap |-> Num(300), beta |-> Num(50)],
                 [history |-> h, high |-> Num(15000), low |-> Num(5000)]) :
        h \in {MkHist(MinBars, 9000, 10000, 10000), MkHist(0, 0, 0, 0)} }
    \cup { MkProvider(None, [target |-> Num(12500), current |-> Num(10000)],
                 [trailingPE |-> None, forwardPE |-> None, dividendYield |-> None,
                  marketCap |-> None, beta |-> None],
                 [history |-> MkHist(0, 0, 0, 0), high |-> None, low |-> None]) }

InitFetch ==
    /\ provider \in FetchProviders
    /\ STOCK_DATA_CACHE = EmptyDict
    /\ now = 0
    /\ served = 0
    /\ response = [status |-> 0]
    /\ lastReport = NoReport
    /\ prevReport = NoReport
    /\ args = NoArgs
    /\ result = Pending
    /\ lastCall = NoCall
    /\ calls = <<>>
    /\ watchlistFile = HList(<<>>)
    /\ requests = <<>>
    /\ acked = {}

\* lines 99-103: fetch_stock_data_from_yfinance(ticker) returns the cached
\* data and no errors
FetchFromCache(ticker) ==
    /\ Len(calls) < MaxFetches
    /\ CacheFresh(STOCK_DATA_CACHE, ticker, now)
    /\ calls' = Append(calls, FetchCall(ticker, now, "cache",
                                        STOCK_DATA_CACHE[ticker].data, <<>>, FALSE))
    /\ UNCHANGED <<provider, STOCK_DATA_CACHE, now, served, response, lastReport,
                   prevReport, args, result, lastCall, watchlistFile, requests, acked>>

\* lines 220-227 for what the provider returned
FetchStore(ticker, fetched, outcome, current_time) ==
    /\ STOCK_DATA_CACHE' = CacheStore(STOCK_DATA_CACHE, ticker, fetched.data, current_time)
    /\ calls' = Append(calls, FetchCall(ticker, current_time, outcome, fetched.data,
                                        fetched.errors, FALSE))

\* lines 99-227: fetch_stock_data_from_yfinance(ticker) sleeps, contacts the
\* provider and caches what is not empty under the current_time of line 99
FetchFromProvider(ticker, outcome) ==
    /\ Len(calls) < MaxFetches
    /\ ~CacheFresh(STOCK_DATA_CACHE, ticker, now)
    /\ now + FetchSleepSeconds <= MaxTime
    /\ now' = now + FetchSleepSeconds
    /\ FetchStore(ticker, FetchFresh(ticker, provider, outcome), outcome, now)
    /\ UNCHANGED <<provider, served, response, lastReport, prevReport, args, result,
                   lastCall, watchlistFile, requests, acked>>

NextFetch ==
    \/ \E t \in FetchTickers : FetchFromCache(t)
    \/ \E t \in FetchTickers, o \in FetchOutcomes : FetchFromProvider(t, o)
    \/ \E d \in TickSteps : Tick(d)

SpecFetch == InitFetch /\ [][NextFetch]_vars

-----------------------------------------------------------------------------
(* POST and DELETE /api/watchlist, served by concurrent threads *)

\* requests to /api/watchlist in one run
MaxClients == 2

\* ticker.upper() from character i on
RECURSIVE UpperFrom(_, _)
UpperFrom(s, i) ==
    IF i > Len(s) THEN "" ELSE ToUpper(SubSeq(s, i, i)) \o UpperFrom(s, i + 1)

\* ticker in watchlist
InList(l, x) == \E i \in 1..Len(l) : l[i] = x

\* watchlist.remove(ticker): the list without the first occurrence of x
RECURSIVE ListRemove(_, _)
ListRemove(l, x) ==
    IF l = <<>> THEN <<>>
    ELSE IF l[1] = x THEN SubSeq(l, 2, Len(l))
    ELSE <<l[1]>> \o ListRemove(SubSeq(l, 2, Len(l)), x)

\* the file between open(WATCHLIST_FILE, 'w') and the end of the with block
Truncated == [t |-> "truncated"]

\* load_watchlist(): the list in the file, or [] when the file is empty or
\* malformed (lines 43-47)
load_watchlist(file) == IF file.t = "list" THEN file.l ELSE <<>>

\* the bodies data.get('ticker') can hold: two tickers, one in lower case,
\* and a body without ticker
WatchlistTickers == {Str("AAPL"), Str("msft"), None}

WatchlistInputs ==
    { [method |-> m, ticker |-> t, pc |-> "received", watchlist |-> <<>>, status |-> 0] :
        m \in {"POST", "DELETE"}, t \in WatchlistTickers }

InitWatchlist ==
    /\ watchlistFile \in {HList(<<>>), HList(<<"AAPL">>)}
    /\ requests \in [1..MaxClients -> WatchlistInputs]
    /\ acked = {}
    /\ provider = [info |-> EmptyDict, history |-> <<>>]
    /\ STOCK_DATA_CACHE = EmptyDict
    /\ now = 0
    /\ served = 0
    /\ response = [status |-> 0]
    /\ lastReport = NoReport
    /\ prevReport = NoReport
    /\ args = NoArgs
    /\ result = Pending
    /\ lastCall = NoCall
    /\ calls = <<>>

\* the variables the watchlist routes leave alone
stockVars == <<provider, STOCK_DATA_CACHE, now, served, response, lastReport,
               prevReport, args, result, lastCall, calls>>

\* request r returns with a status
Respond(r, status) ==
    requests' = [requests EXCEPT ![r].pc = "done", ![r].status = status]

\* request r goes on to save_watchlist(watchlist)
GoSave(r, watchlist) ==
    requests' = [requests EXCEPT ![r].pc = "loaded", ![r].watchlist = watchlist]

\* lines 541-547 for the upper-cased ticker and the list loaded
AddLoaded(r, ticker, watchlist) ==
    IF ~InList(watchlist, ticker)
    THEN GoSave(r, Append(watchlist, ticker))
    ELSE Respond(r, 409)

\* POST /api/watchlist up to the call of save_watchlist (lines 536-544)
AddToWatchlist(r) ==
    /\ requests[r].method = "POST"
    /\ requests[r].pc = "received"
    /\ IF ~Truthy(requests[r].ticker) THEN Respond(r, 400)
       ELSE AddLoaded(r, UpperFrom(requests[r].ticker.s, 1), load_watchlist(watchlistFile))
    /\ UNCHANGED <<watchlistFile, acked>>
    /\ UNCHANGED stockVars

\* lines 556-562 for the upper-cased ticker and the list loaded
RemoveLoaded(r, ticker, watchlist) ==
    IF InList(watchlist, ticker)
    THEN GoSave(r, ListRemove(watchlist, ticker))
    ELSE Respond(r, 404)

\* DELETE /api/watchlist up to the call of save_watchlist (lines 551-559)
RemoveFromWatchlist(r) ==
    /\ requests[r].method = "DELETE"
    /\ requests[r].pc = "received"
    /\ IF ~Truthy(requests[r].ticker) THEN Respond(r, 400)
       ELSE RemoveLoaded(r, UpperFrom(requests[r].ticker.s, 1), load_watchlist(watchlistFile))
    /\ UNCHANGED <<watchlistFile, acked>>
    /\ UNCHANGED stockVars

\* save_watchlist, line 52: open(WATCHLIST_FILE, 'w') empties the file
SaveOpen(r) ==
    /\ requests[r].pc = "loaded"
    /\ watchlistFile' = Truncated
    /\ requests' = [requests EXCEPT ![r].pc = "opened"]
    /\ UNCHANGED acked
    /\ UNCHANGED stockVars

\* the tickers whose last 200 answer is that of an add, after request r
\* returned 200 for ticker
Acknowledge(r, ticker) ==
    IF requests[r].method = "POST" THEN acked \cup {ticker} ELSE acked \ {ticker}

\* save_watchlist, line 53 and the end of the with block: the list is in the
\* file; then the request returns 200 (lines 546, 561)
SaveDump(r) ==
    /\ requests[r].pc = "opened"
    /\ watchlistFile' = HList(requests[r].watchlist)
    /\ Respond(r, 200)
    /\ acked' = Acknowledge(r, UpperFrom(requests[r].ticker.s, 1))
    /\ UNCHANGED stockVars

NextWatchlist ==
    \/ \E r \in 1..MaxClients : AddToWatchlist(r)
    \/ \E r \in 1..MaxClients : RemoveFromWatchlist(r)
    \/ \E r \in 1..MaxClients : SaveOpen(r)
    \/ \E r \in 1..MaxClients : SaveDump(r)

SpecWatchlist == InitWatchlist /\ [][NextWatchlist]_vars

-----------------------------------------------------------------------------
(* Properties *)

Returned == result.st = "returned"
HasReport == lastReport.st = "report"

\* C1: analyze never fails: every call of calculate_overall_score_and_reasons
\* on a non-empty snapshot, the ones without an analystUpside included,
\* returns a report instead of raising.
C1_AnalyzeNeverFails == lastReport.st /= "raised"

InRange(x) == x \in 0..100

\* C2: each of the four scorers returns a score in 0..100 for every input,
\* the all-absent input included, and the overallScore analyze computes from
\* them is in 0..100 too.
C2_ScoresInRange ==
    /\ Returned /\ args.fn \in {"rating", "upside", "financial", "technical"}
         => InRange(result.value.score)
    /\ Returned /\ args.fn = "analyze" /\ ~result.value.raised
         => /\ InRange(result.value.data["overallScore"].v)
            /\ \A k \in DOMAIN result.value.data["scoreBreakdown"].d :
                 InRange(result.value.data["scoreBreakdown"].d[k])

\* all-absent inputs were scored, and analyze has combined four scores
C2_Witness ==
    \/ Returned /\ args.fn = "financial" /\ args.info = EmptyDict /\ result.value.score = 0
    \/ Returned /\ args.fn = "analyze" /\ ~result.value.raised
         /\ result.value.data["overallScore"].v > 0

\* C3: analyze run again on the snapshot it already processed (the cached
\* snapshot served again) yields the same overallScore, suggestion,
\* scoreBreakdown and reasons as the call before.
C3_SecondAnalysisSame == prevReport.st /= "none" => lastReport = prevReport

C3_Witness == prevReport.st = "report" /\ lastReport = prevReport /\ served >= 2

\* C4 as stated: reasons has at least 5 elements, element 0 starts with the
\* word "Overall", elements 1..4 are the Rating, Upside, Financial and
\* Technical lines in that order.
C4_StartsWithOverall ==
    HasReport =>
        /\ Len(lastReport.reasons) >= 5
        /\ StartsWith(lastReport.reasons[1], "Overall")
        /\ StartsWith(lastReport.reasons[2], "Analyst Rating: ")
        /\ StartsWith(lastReport.reasons[3], "Analyst Upside: ")
        /\ StartsWith(lastReport.reasons[4], "Financial Analysis: ")
        /\ StartsWith(lastReport.reasons[5], "Technical Analysis: ")

\* C4, amended: reasons has at least 5 elements (exactly 5), element 0 is the
\* overall-recommendation statement and starts with the bold marker and the
\* word Overall, "**Overall Recommendation: ", and elements 1..4 are the
\* Rating, Upside, Financial and Technical lines in that order.
C4_ReasonsLayout ==
    HasReport =>
        /\ Len(lastReport.reasons) >= 5
        /\ Len(lastReport.reasons) = 5
        /\ StartsWith(lastReport.reasons[1], "**Overall Recommendation: ")
        /\ StartsWith(lastReport.reasons[2], "Analyst Rating: ")
        /\ StartsWith(lastReport.reasons[3], "Analyst Upside: ")
        /\ StartsWith(lastReport.reasons[4], "Financial Analysis: ")
        /\ StartsWith(lastReport.reasons[5], "Technical Analysis: ")

C4_Witness ==
    /\ HasReport
    /\ Len(lastReport.reasons) = 5
    /\ StartsWith(lastReport.reasons[1], "**Overall Recommendation: ")

\* the four sub-scores of a report summed
BreakdownTotal(bd) ==
    bd.analystRating + bd.analystUpside + bd.financialAnalysis + bd.technicalAnalysis

\* o is the integer nearest to total/4, an exact half going to the even one
NearestToMean(o, total) ==
    /\ 4 * o - total \in -2..2
    /\ (4 * o - total \in {-2, 2}) => o % 2 = 0

\* C5: overallScore is the integer nearest to the mean of the four
\* sub-scores, exact halves going to the even integer; when the four
\* sub-scores are equal, overallScore is that score.
C5_OverallIsNearestMean ==
    HasReport =>
        /\ NearestToMean(lastReport.overallScore, BreakdownTotal(lastReport.scoreBreakdown))
        /\ \A x \in 0..100 :
             lastReport.scoreBreakdown =
                 [analystRating |-> x, analystUpside |-> x,
                  financialAnalysis |-> x, technicalAnalysis |-> x]
             => lastReport.overallScore = x

\* a mean that ends in .5 was rounded down to the even integer
C5_Witness ==
    /\ HasReport
    /\ 4 * lastReport.overallScore - BreakdownTotal(lastReport.scoreBreakdown) = -2

\* C6: suggestion is decided by overallScore alone, lower thresholds
\* inclusive and evaluated top-down (>= 85 Strong Buy, >= 70 Buy, >= 50 Hold,
\* >= 30 Sell, else Strong Sell), and the sentence placed first in reasons
\* names the same suggestion.
C6_SuggestionThresholds ==
    HasReport =>
        /\ lastReport.overallScore >= 85 => lastReport.suggestion = "Strong Buy"
        /\ lastReport.overallScore \in 70..84 => lastReport.suggestion = "Buy"
        /\ lastReport.overallScore \in 50..69 => lastReport.suggestion = "Hold"
        /\ lastReport.overallScore \in 30..49 => lastReport.suggestion = "Sell"
        /\ lastReport.overallScore < 30 => lastReport.suggestion = "Strong Sell"
        /\ StartsWith(lastReport.reasons[1],
                      "**Overall Recommendation: " \o lastReport.suggestion \o "** - ")

\* the boundary score 85 was reached and given Strong Buy
C6_Witness ==
    HasReport /\ lastReport.overallScore = 85 /\ lastReport.suggestion = "Strong Buy"

\* the tier of an upside of n/d (d > 0), bounds in 1/10000
ExpectedUpsideScore(n, d) ==
    IF 10000 * n >= 2500 * d THEN 100
    ELSE IF 10000 * n >= 1500 * d THEN 90
    ELSE IF 10000 * n >= 800 * d THEN 75
    ELSE IF 10000 * n >= 200 * d THEN 60
    ELSE IF 10000 * n >= -500 * d THEN 40
    ELSE 10

\* C7: calculate_analyst_upside_score gives 50 to an absent or non-numeric
\* upside and otherwise the first tier whose inclusive lower bound the upside
\* reaches: >= 0.25 -> 100, >= 0.15 -> 90, >= 0.08 -> 75, >= 0.02 -> 60,
\* >= -0.05 -> 40, below -> 10.
C7_UpsideTiers ==
    Returned /\ args.fn = "upside" =>
        /\ args.upside_percent.t \in {"none", "str"} => result.value.score = 50
        /\ args.upside_percent.t = "rat" =>
             result.value.score =
                 ExpectedUpsideScore(args.upside_percent.n, args.upside_percent.d)
        /\ args.upside_percent = Rat(2500, 10000) => result.value.score = 100
        /\ args.upside_percent = Rat(2499, 10000) => result.value.score = 90
        /\ args.upside_percent = Rat(-500, 10000) => result.value.score = 40
        /\ args.upside_percent = Rat(-501, 10000) => result.value.score = 10

C7_Witness ==
    Returned /\ args.fn = "upside" /\ args.upside_percent = Rat(2500, 10000)
    /\ result.value.score = 100

\* the five metrics of a financial input are all absent
AllFinancialAbsent(d) ==
    \A k \in {"trailingPE", "forwardPE", "dividendYield", "marketCap", "beta"} :
        Get(d, k) = None

\* C8 as stated: with the five metrics absent the financial scorer returns
\* score 0 and exactly one reason, the "limited data" fallback.
C8_SingleFallbackReason ==
    Returned /\ args.fn = "financial" /\ AllFinancialAbsent(args.info) =>
        /\ result.value.score = 0
        /\ result.value.reasons = <<LimitedFinancialReason>>

\* C8, amended: with the five metrics absent the financial scorer returns
\* score 0 and exactly five reasons, the not-available note of each metric in
\* the order trailing P/E, forward P/E, dividend yield, market cap, beta; the
\* "limited data" fallback is not among them.
C8_FiveUnavailableReasons ==
    Returned /\ args.fn = "financial" /\ AllFinancialAbsent(args.info) =>
        /\ result.value.score = 0
        /\ result.value.reasons =
             <<"Trailing P/E Ratio N/A or not positive, limiting valuation insight.",
               "Forward P/E Ratio N/A or not positive.",
               "No significant dividend yield, common for growth stocks or those reinvesting earnings.",
               "Market capitalization data unavailable.",
               "Beta (market volatility) data unavailable.">>

C8_Witness ==
    Returned /\ args.fn = "financial" /\ AllFinancialAbsent(args.info)
    /\ Len(result.value.reasons) = 5

\* the provider reports the best case of every financial metric
BestCaseInfo(inf) ==
    /\ Get(inf, "trailingPE") = Num(1000)
    /\ Get(inf, "forwardPE") = Num(1000)
    /\ Get(inf, "dividendYield") = Num(400)
    /\ Get(inf, "marketCap") = Num(300)
    /\ Get(inf, "beta") = Num(50)

\* C9: for a snapshot fetched from provider info with trailingPE=10,
\* forwardPE=10, dividendYield=0.04, marketCap=300e9 and beta=0.5 the
\* financial sub-score analyze reports is 100 (25+20+20+15+20).
C9_BestCaseScores100 ==
    HasReport /\ BestCaseInfo(provider.info) =>
        lastReport.scoreBreakdown.financialAnalysis = 100

\* C10: when the history is absent, empty or shorter than 200 bars the
\* technical scorer returns exactly score 50 with the single "insufficient
\* historical data" reason, whatever the price and the 52-week bounds are.
C10_ShortHistoryGate ==
    Returned /\ args.fn = "technical"
      /\ (args.historical_data.t /= "list" \/ BarCount(args.historical_data.l) < 200)
      => result.value = [score |-> 50, reasons |-> <<InsufficientHistoryReason>>]

\* a history of 199 bars with price and bounds present was scored 50
C10_Witness ==
    /\ Returned /\ args.fn = "technical"
    /\ args.historical_data.t = "list"
    /\ BarCount(args.historical_data.l) = 199
    /\ args.current_price = Num(10000)
    /\ args.fifty_two_week_high = Num(10500)
    /\ args.fifty_two_week_low = Num(5000)
    /\ result.value.score = 50

\* the technical scorer was called with a history that passes the gate
TechnicalScored == Returned /\ args.fn = "technical" /\ TechGateOpen(args.historical_data)

\* the price the sub-scores of that call use (lines 370-373)
PriceUsed ==
    IF IsNumber(args.current_price) THEN args.current_price.v
    ELSE CloseAt(args.historical_data.l, BarCount(args.historical_data.l))

\* the momentum sub-score as a function of recentChange = (last - c) / c,
\* for closes that are not negative
ClaimedMomentum(c, last) ==
    IF c = 0 THEN [add |-> 0, prefix |-> "Cannot calculate recent performance"]
    ELSE IF 100 * (last - c) >= 5 * c THEN [add |-> 30, prefix |-> "Strong recent performance"]
    ELSE IF 100 * (last - c) >= c THEN [add |-> 20, prefix |-> "Positive recent performance"]
    ELSE IF 100 * (last - c) <= -5 * c THEN [add |-> 0, prefix |-> "Weak recent performance"]
    ELSE IF last - c < 0 THEN [add |-> 10, prefix |-> "Slightly negative recent performance"]
    ELSE [add |-> 15, prefix |-> "Stable recent performance"]

\* the call's last reason and score are those of the momentum sub-score m
MomentumIs(m) ==
    /\ StartsWith(result.value.reasons[Len(result.value.reasons)], m.prefix)
    /\ result.value.score =
         Min(100, TechMA(args.historical_data.l, PriceUsed).add
                  + TechRange(PriceUsed, args.fifty_two_week_high, args.fifty_two_week_low).add
                  + m.add)

\* C11: for a history of at least 200 bars the momentum sub-score is computed
\* from recentChange = (lastClose - c) / c with c the close 20 bars before the
\* last bar; it is skipped with a reason when c = 0, and otherwise adds 30 for
\* >= 0.05, 20 for >= 0.01, 0 for <= -0.05, 10 inside (-0.05, 0) and 15
\* inside [0, 0.01).
C11_MomentumFrom20BarsBefore ==
    TechnicalScored =>
        MomentumIs(ClaimedMomentum(
            CloseAt(args.historical_data.l, BarCount(args.historical_data.l) - 20),
            CloseAt(args.historical_data.l, BarCount(args.historical_data.l))))

\* pos / rng >= a / b for rng /= 0 and b > 0
FracGE(pos, rng, a, b) == IF rng > 0 THEN b * pos >= a * rng ELSE b * pos <= a * rng

\* pos / rng <= a / b for rng /= 0 and b > 0
FracLE(pos, rng, a, b) == IF rng > 0 THEN b * pos <= a * rng ELSE b * pos >= a * rng

\* the 52-week range sub-score as a function of position = pos / rng, skipped
\* only when rng = 0
ClaimedRange(pos, rng) ==
    IF rng = 0 THEN [add |-> 0, prefix |-> "52-week high and low are too close"]
    ELSE IF FracGE(pos, rng, 9, 10) THEN [add |-> 30, prefix |-> "Price is near 52-week high"]
    ELSE IF FracGE(pos, rng, 7, 10) THEN [add |-> 20, prefix |-> "Price is in the upper range"]
    ELSE IF FracLE(pos, rng, 1, 10) THEN [add |-> 0, prefix |-> "Price is near 52-week low"]
    ELSE IF FracLE(pos, rng, 3, 10) THEN [add |-> 5, prefix |-> "Price is in the lower range"]
    ELSE [add |-> 10, prefix |-> "Price is in the mid-range"]

\* the call's last but one reason and score are those of the range sub-score r
RangeIs(r) ==
    /\ StartsWith(result.value.reasons[Len(result.value.reasons) - 1], r.prefix)
    /\ result.value.score =
         Min(100, TechMA(args.historical_data.l, PriceUsed).add
                  + r.add
                  + TechMomentum(args.historical_data.l).add)

\* C12: for a history of at least 200 bars with the 52-week high, the 52-week
\* low and the current price all present as numbers, zero included, the range
\* sub-score is skipped only when high = low; otherwise position =
\* (currentPrice - low) / (high - low) adds 30 when >= 0.9, 20 when >= 0.7,
\* 0 when <= 0.1, 5 when <= 0.3 and 10 in the mid-range.
C12_RangeSkippedOnlyWhenEqual ==
    TechnicalScored /\ IsNumber(args.current_price)
      /\ IsNumber(args.fifty_two_week_high) /\ IsNumber(args.fifty_two_week_low)
      => RangeIs(ClaimedRange(args.current_price.v - args.fifty_two_week_low.v,
                              args.fifty_two_week_high.v - args.fifty_two_week_low.v))

\* with non-zero numbers the range sub-score follows the position tiers
RangeFollowsTiersWhenNonZero ==
    TechnicalScored /\ IsNumber(args.current_price) /\ args.current_price.v /= 0
      /\ IsNumber(args.fifty_two_week_high) /\ args.fifty_two_week_high.v /= 0
      /\ IsNumber(args.fifty_two_week_low) /\ args.fifty_two_week_low.v /= 0
      /\ args.fifty_two_week_high.v >= args.fifty_two_week_low.v
      => RangeIs(ClaimedRange(args.current_price.v - args.fifty_two_week_low.v,
                              args.fifty_two_week_high.v - args.fifty_two_week_low.v))

\* the momentum sub-score follows the tiers for c = Close.iloc[-20]
MomentumFollowsTiersFromIloc20 ==
    TechnicalScored =>
        MomentumIs(ClaimedMomentum(
            CloseAt(args.historical_data.l, BarCount(args.historical_data.l) - 19),
            CloseAt(args.historical_data.l, BarCount(args.historical_data.l))))

\* the latest request to /api/stock_data called the fetch
Fetched == lastCall.outcome /= "none"

\* C13: analyze does not mutate its input: after
\* calculate_overall_score_and_reasons returns, the snapshot passed in, and
\* with it the entry STOCK_DATA_CACHE holds for the ticker, has exactly the
\* keys and values it had before the call.
C13_InputNotMutated ==
    Fetched /\ lastCall.analyzed =>
        /\ lastCall.ticker \in DOMAIN STOCK_DATA_CACHE
        /\ STOCK_DATA_CACHE[lastCall.ticker].data = lastCall.data

\* the contact with the provider ended in failure: retries exhausted, an
\* unexpected exception, or an error caught by the outer handler
FetchFailed(c) ==
    \/ c.outcome \in {"rate_limited", "empty_info", "unexpected", "history_error"}
    \/ c.outcome = "ok" /\ RecommendationRaises(provider.info)

\* C14: whenever the fetch of a request ends in failure, the snapshot is
\* empty, calculate_overall_score_and_reasons is not called on it, and the
\* response is the failure response carrying the collected errors.
C14_NoAnalysisOnFailure ==
    Fetched /\ FetchFailed(lastCall) =>
        /\ lastCall.data = EmptyDict
        /\ ~lastCall.analyzed
        /\ lastCall.errors /= <<>>
        /\ response = [status |-> 404, success |-> FALSE,
                       detailedErrors |-> lastCall.errors]

\* a snapshot was served and analyzed, its entry expired, and the next fetch
\* failed at ticker_obj.history()
C14_Witness ==
    /\ Fetched
    /\ lastCall.outcome = "history_error"
    /\ ~lastCall.analyzed
    /\ lastCall.ticker \in DOMAIN STOCK_DATA_CACHE
    /\ HasReport
    /\ response.status = 404

\* call i contacted the provider and returned data that is not empty
Produced(i) == calls[i].outcome /= "cache" /\ calls[i].data /= EmptyDict

\* an earlier call for the ticker of call i produced data and started less
\* than 14400 s before call i started
ProducedBefore(i) ==
    \E j \in 1..(i - 1) :
        /\ calls[j].ticker = calls[i].ticker
        /\ Produced(j)
        /\ calls[i].start - calls[j].start < 14400

\* call j is the latest call for ticker t that produced data
LatestProduced(t, j) ==
    /\ calls[j].ticker = t
    /\ Produced(j)
    /\ \A k \in (j + 1)..Len(calls) : ~(calls[k].ticker = t /\ Produced(k))

\* C15: over any sequence of fetches, a fetch for ticker T is answered from
\* STOCK_DATA_CACHE, without contacting the provider and with an empty error
\* list, exactly when an earlier fetch of T produced non-empty data and
\* started less than 14400 s before; a fetch that ends with empty data never
\* creates or overwrites a cache entry, so the entry of T is that of the
\* latest fetch of T that produced data.
C15_CacheFreshness ==
    /\ \A i \in 1..Len(calls) :
         /\ calls[i].outcome = "cache" <=> ProducedBefore(i)
         /\ calls[i].outcome = "cache" =>
              calls[i].errors = <<>> /\ calls[i].data /= EmptyDict
    /\ \A t \in FetchTickers :
         /\ t \in DOMAIN STOCK_DATA_CACHE <=>
              \E j \in 1..Len(calls) : LatestProduced(t, j)
         /\ \A j \in 1..Len(calls) :
              LatestProduced(t, j) =>
                 STOCK_DATA_CACHE[t] = [data |-> calls[j].data, timestamp |-> calls[j].start]

\* a fetch produced data, the next one 30 s later was answered from the
\* cache, and the one exactly 14400 s after the first contacted the provider
\* again, failed and left the entry of the first in place
C15_Witness ==
    /\ Len(calls) = 3
    /\ calls[1].ticker = "AAPL" /\ Produced(1) /\ calls[1].start = 0
    /\ calls[2].ticker = "AAPL" /\ calls[2].outcome = "cache"
    /\ calls[3].ticker = "AAPL" /\ calls[3].start = 14400
    /\ calls[3].outcome = "rate_limited"
    /\ STOCK_DATA_CACHE["AAPL"].timestamp = 0

\* the reading in which a call answered from the cache counts as an earlier
\* fetch that produced data
AnsweredBefore(i) ==
    \E j \in 1..(i - 1) :
        /\ calls[j].ticker = calls[i].ticker
        /\ calls[j].data /= EmptyDict
        /\ calls[i].start - calls[j].start < 14400

CacheHitsExtendFreshness ==
    \A i \in 1..Len(calls) : calls[i].outcome = "cache" <=> AnsweredBefore(i)

\* no request is between its load and the end of its save
NoSaveInProgress == \A r \in DOMAIN requests : requests[r].pc \in {"received", "done"}

\* the stored watchlist holds no ticker twice
NoDuplicateTickers ==
    \A i, j \in 1..Len(load_watchlist(watchlistFile)) :
        i /= j => load_watchlist(watchlistFile)[i] /= load_watchlist(watchlistFile)[j]

\* C16: under any interleaving of concurrent POST and DELETE /api/watchlist
\* requests the stored watchlist never holds a ticker twice, and every ticker
\* whose add returned 200 and for which no later remove returned 200 is in
\* the stored watchlist (stated for the states in which no save is under way).
C16_WatchlistIntegrity ==
    /\ NoDuplicateTickers
    /\ NoSaveInProgress =>
         \A t \in acked : InList(load_watchlist(watchlistFile), t)

====
